---- MODULE Spec2Model ----
(***************************************************************************)
(* Model of strava2garminconnect/image.py: the histogram based image       *)
(* comparison (pixel_diff, total_histogram_diff, image_diff,               *)
(* image_diff_percent, is_equal, is_equal_bytes).                          *)
(*                                                                         *)
(* One behaviour is one call of one entry point.  The state holds the      *)
(* call's arguments, the function's local bindings image_a / image_b with  *)
(* the state of the Image object each one names, the close_a / close_b     *)
(* flags, the outcome of the try block, and the call's result.             *)
(*                                                                         *)
(* A Python float is a binary64: zero, or a 53 bit significand held in     *)
(* five limbs (1 bit, then four of 13 bits) with a binary exponent.  The   *)
(* division and the multiplication of line 156 each round to nearest,      *)
(* ties to even, as the hardware does.                                     *)
(***************************************************************************)
EXTENDS Integers, Sequences, FiniteSets

VARIABLES op, arg_a, arg_b, tolerance, pc, image_a, image_b,
          close_a, close_b, try_outcome, result

vars == <<op, arg_a, arg_b, tolerance, pc, image_a, image_b,
          close_a, close_b, try_outcome, result>>

(* Largest pixel count (width * height) of an input image. *)
MaxArea == 2

----------------------------------------------------------------------------
(* Images: size <<width, height>>, a Pillow mode, row-major pixel tuples.  *)

Modes == {"L", "RGB", "RGBA", "CMYK"}

Sizes == {s \in (0..MaxArea) \X (1..MaxArea) : s[1] * s[2] <= MaxArea}

Area(size) == size[1] * size[2]

Samples(mode) ==
  CASE mode = "L"    -> {<<0>>, <<255>>, <<100>>}
    [] mode = "RGB"  -> {<<0, 0, 0>>, <<255, 255, 255>>, <<255, 128, 0>>}
    [] mode = "RGBA" -> {<<0, 0, 0, 255>>, <<0, 0, 0, 0>>, <<10, 200, 30, 255>>}
    [] mode = "CMYK" -> {<<0, 0, 0, 0>>, <<0, 0, 0, 255>>, <<255, 0, 100, 0>>}

FirstSample(mode) ==
  CASE mode = "L"    -> <<0>>
    [] mode = "RGB"  -> <<0, 0, 0>>
    [] mode = "RGBA" -> <<0, 0, 0, 255>>
    [] mode = "CMYK" -> <<0, 0, 0, 0>>

(* Image.new(mode, size, color) *)
ImageNew(mode, size, color) ==
  [size |-> size, mode |-> mode, px |-> [k \in 1..Area(size) |-> color]]

ImagesOf(size, mode) ==
  {[size |-> size, mode |-> mode, px |-> p] :
     p \in [1..Area(size) -> Samples(mode)]}

NoImage == [size |-> <<0, 0>>, mode |-> "none", px |-> <<>>]

----------------------------------------------------------------------------
(* Pillow operations used by image.py *)

Abs(x) == IF x < 0 THEN -x ELSE x

(* ImageChops.difference: per channel abs(a - b); the result has the mode  *)
(* of the first image.                                                     *)
ChopsDifference(a, b) ==
  [size |-> a.size, mode |-> a.mode,
   px |-> [k \in 1..Len(a.px) |->
             [c \in 1..Len(a.px[k]) |-> Abs(a.px[k][c] - b.px[k][c])]]]

(* Convert.c rgb2l: ITU-R 601-2 luma, rounded *)
Rgb2L(r, g, b) == (r * 19595 + g * 38470 + b * 7471 + 32768) \div 65536

(* Convert.c MULDIV255 *)
MulDiv255(x, y) == (((x * y + 128) \div 256) + (x * y + 128)) \div 256

(* Convert.c cmyk2rgb, one channel *)
Cmyk2RgbChannel(ink, k) == (255 - k) - MulDiv255(ink, 255 - k)

(* Image.convert('L') of one pixel.  CMYK has no direct conversion to L    *)
(* and goes through its base mode RGB.                                     *)
ConvertPixelL(mode, p) ==
  CASE mode = "L"    -> p[1]
    [] mode = "RGB"  -> Rgb2L(p[1], p[2], p[3])
    [] mode = "RGBA" -> Rgb2L(p[1], p[2], p[3])
    [] mode = "CMYK" -> Rgb2L(Cmyk2RgbChannel(p[1], p[4]),
                              Cmyk2RgbChannel(p[2], p[4]),
                              Cmyk2RgbChannel(p[3], p[4]))

ConvertL(im) ==
  [size |-> im.size, mode |-> "L",
   px |-> [k \in 1..Len(im.px) |-> <<ConvertPixelL(im.mode, im.px[k])>>]]

(* Image.histogram() of an L image: 256 counts *)
Histogram(im) ==
  [i \in 0..255 |-> Cardinality({k \in 1..Len(im.px) : im.px[k][1] = i})]

----------------------------------------------------------------------------
(* Python floats (IEEE 754 binary64), non-negative, normal range:          *)
(* [m |-> <<l0, l1, l2, l3, l4>>, e |-> e] is                              *)
(* (l0 * 2^52 + l1 * 2^39 + l2 * 2^26 + l3 * 2^13 + l4) * 2^(e - 52),      *)
(* with l0 = 1, or all limbs 0 for 0.0.                                    *)

LimbBase == 2 ^ 13

FloatZero == [m |-> <<0, 0, 0, 0, 0>>, e |-> 0]

IsZero(x) == x.m[1] = 0

(* significand + 1, carried through the limbs; 2^53 becomes 1.0 * 2^(e+1) *)
Increment(x) ==
  LET s4 == x.m[5] + 1
      s3 == x.m[4] + s4 \div LimbBase
      s2 == x.m[3] + s3 \div LimbBase
      s1 == x.m[2] + s2 \div LimbBase
      s0 == x.m[1] + s1 \div LimbBase
  IN  IF s0 = 2
        THEN [m |-> <<1, 0, 0, 0, 0>>, e |-> x.e + 1]
        ELSE [m |-> <<s0, s1 % LimbBase, s2 % LimbBase, s3 % LimbBase,
                      s4 % LimbBase>>,
              e |-> x.e]

(* round to nearest, ties to even: dropped and half are the discarded part *)
(* and one half unit of the last place, on one scale                       *)
RoundNearestEven(x, dropped, half) ==
  IF dropped > half \/ (dropped = half /\ x.m[5] % 2 = 1)
    THEN Increment(x)
    ELSE x

RECURSIVE Normalize(_, _, _)
(* <<n', d', e>> with n / d = (n' / d') * 2^e and 1 <= n' / d' < 2 *)
Normalize(n, d, e) ==
  IF n < d THEN Normalize(2 * n, d, e - 1)
  ELSE IF n >= 2 * d THEN Normalize(n, 2 * d, e + 1)
  ELSE <<n, d, e>>

(* float(n) / float(d) for integers n >= 0, d > 0: long division to 53     *)
(* bits, then one rounding                                                 *)
FloatDiv(n, d) ==
  IF n = 0 THEN FloatZero
  ELSE LET nd == Normalize(n, d, 0)
           dd == nd[2]
           r0 == nd[1] - dd
           q1 == (r0 * LimbBase) \div dd
           r1 == (r0 * LimbBase) % dd
           q2 == (r1 * LimbBase) \div dd
           r2 == (r1 * LimbBase) % dd
           q3 == (r2 * LimbBase) \div dd
           r3 == (r2 * LimbBase) % dd
           q4 == (r3 * LimbBase) \div dd
           r4 == (r3 * LimbBase) % dd
       IN  RoundNearestEven([m |-> <<1, q1, q2, q3, q4>>, e |-> nd[3]],
                            2 * r4, dd)

RECURSIVE BitLength(_)
BitLength(n) == IF n = 0 THEN 0 ELSE 1 + BitLength(n \div 2)

(* x * float(c) for an integer 1 <= c < 2^13: the exact product, shifted   *)
(* back to 53 bits, then one rounding                                      *)
FloatMulInt(x, c) ==
  IF IsZero(x) THEN FloatZero
  ELSE LET t4 == x.m[5] * c
           t3 == x.m[4] * c + t4 \div LimbBase
           t2 == x.m[3] * c + t3 \div LimbBase
           t1 == x.m[2] * c + t2 \div LimbBase
           t0 == x.m[1] * c + t1 \div LimbBase
           p1 == t1 % LimbBase
           p2 == t2 % LimbBase
           p3 == t3 % LimbBase
           p4 == t4 % LimbBase
           sh == BitLength(t0) - 1
           low == 2 ^ sh
           up == LimbBase \div low
           shifted ==
             [m |-> <<t0 \div low,
                      (t0 % low) * up + p1 \div low,
                      (p1 % low) * up + p2 \div low,
                      (p2 % low) * up + p3 \div low,
                      (p3 % low) * up + p4 \div low>>,
              e |-> x.e + sh]
       IN  IF sh = 0 THEN shifted
           ELSE RoundNearestEven(shifted, 2 * (p4 % low), low)

(* x < y and x <= y on floats *)
FloatLt(x, y) ==
  IF IsZero(y) THEN FALSE
  ELSE IF IsZero(x) THEN TRUE
  ELSE IF x.e # y.e THEN x.e < y.e
  ELSE \E i \in 1..5 : /\ x.m[i] < y.m[i]
                       /\ \A j \in 1..(i - 1) : x.m[j] = y.m[j]

FloatLeq(x, y) == x = y \/ FloatLt(x, y)

----------------------------------------------------------------------------
(* Outcomes of a call or of a block: a value or a raised exception *)

(* num is an int score, flt a float percentage *)
Outcome(tag, exc, img, num, flt, bool) ==
  [tag |-> tag, exc |-> exc, img |-> img, num |-> num, flt |-> flt,
   bool |-> bool]

NoOutcome == Outcome("none", "", NoImage, 0, FloatZero, FALSE)
Raise(exc) == Outcome("raise", exc, NoImage, 0, FloatZero, FALSE)
RetImage(im) == Outcome("image", "", im, 0, FloatZero, FALSE)
RetScore(s) == Outcome("score", "", NoImage, s, FloatZero, FALSE)
RetPercent(f) == Outcome("percent", "", NoImage, 0, f, FALSE)
RetBool(b) == Outcome("bool", "", NoImage, 0, FloatZero, b)

----------------------------------------------------------------------------
(* image.py, the pure functions *)

pixel_diff_size_only(a, b) ==
  IF a.size # b.size
    THEN Raise("ImageCompareException")
    ELSE RetImage(ConvertL(
           [size |-> a.size, mode |-> a.mode,
            px |-> [k \in 1..Len(a.px) |->
                      [c \in 1..Len(a.px[k]) |->
                         Abs(a.px[k][c] -
                             (IF c <= Len(b.px[k]) THEN b.px[k][c] ELSE 0))]]]))

pixel_diff(a, b) ==
  IF a.size # b.size
    THEN Raise("ImageCompareException")
    ELSE IF a.mode # b.mode
      THEN Raise("ImageCompareException")
      ELSE RetImage(ConvertL(ChopsDifference(a, b)))

RECURSIVE WeightedSum(_, _, _, _)
(* sum(i * n for i, n in enumerate(h)) restricted to the levels lo..hi,    *)
(* with enumerate counting from first; summed by halves.                   *)
WeightedSum(h, lo, hi, first) ==
  IF lo > hi THEN 0
  ELSE IF lo = hi THEN (lo + first) * h[lo]
  ELSE LET mid == (lo + hi) \div 2
       IN  WeightedSum(h, lo, mid, first) + WeightedSum(h, mid + 1, hi, first)

total_histogram_diff_from_one(diff) == WeightedSum(Histogram(diff), 0, 255, 1)

total_histogram_diff(diff) == WeightedSum(Histogram(diff), 0, 255, 0)

image_diff(a, b) ==
  LET d == pixel_diff(a, b)
  IN  IF d.tag = "raise" THEN d ELSE RetScore(total_histogram_diff(d.img))

black_reference_image(size) == ImageNew("RGB", size, <<0, 0, 0>>)

white_reference_image_gray(size) == ImageNew("RGB", size, <<128, 128, 128>>)

white_reference_image(size) == ImageNew("RGB", size, <<255, 255, 255>>)

(* The body of the try block of image_diff_percent: the float            *)
(* (input / float(worst)) * 100, or the exception that leaves the block.   *)
TryBody(a, b) ==
  LET input_images_histogram_diff == image_diff(a, b)
  IN  IF input_images_histogram_diff.tag = "raise"
        THEN input_images_histogram_diff
        ELSE LET worst_bw_diff ==
                   image_diff(black_reference_image(a.size),
                              white_reference_image(a.size))
             IN  IF worst_bw_diff.tag = "raise" THEN worst_bw_diff
                 ELSE IF worst_bw_diff.num = 0
                   THEN Raise("ZeroDivisionError")
                   ELSE RetPercent(FloatMulInt(
                          FloatDiv(input_images_histogram_diff.num,
                                   worst_bw_diff.num), 100))

(* image_diff_percent(image_a, image_b) <= tolerance, on floats *)
PercentLtTolerance(p, t) == FloatLt(p.flt, t)

PercentLeqTolerance(p, t) == FloatLeq(p.flt, t)

(* image_a.size != image_b.size *)
SizesDifferWidthOnly(a, b) == a.size[1] # b.size[1]

SizesDiffer(a, b) == a.size # b.size

(* isinstance(image, str) *)
IsInstanceStr(binding) == binding.kind = "str"

----------------------------------------------------------------------------
(* Arguments and local bindings *)

Arg(kind, ok, img) == [kind |-> kind, ok |-> ok, img |-> img]

(* The local name as the call starts: a str, a bytes buffer, or the        *)
(* caller's open Image.                                                    *)
Bind(arg) ==
  [kind |-> arg.kind,
   st |-> IF arg.kind = "image" THEN "open" ELSE "none",
   img |-> IF arg.kind = "image" THEN arg.img ELSE NoImage]

(* Image.open of a decodable source *)
Opened(arg) == [kind |-> "image", st |-> "open", img |-> arg.img]

Closed(binding) == [binding EXCEPT !.st = "closed"]

(* tolerance values 0.0, 2.5, 50.0 *)
Tolerances == {FloatDiv(0, 1), FloatDiv(5, 2), FloatDiv(50, 1)}

DefaultTolerance == FloatDiv(0, 1)

PlainImages == {ImageNew(m, s, FirstSample(m)) : s \in Sizes, m \in Modes}

ImageArgs == {Arg("image", TRUE, i) : i \in PlainImages}
PathArgs == {Arg("str", TRUE, i) : i \in PlainImages}
            \cup {Arg("str", FALSE, NoImage)}
BytesArgs == {Arg("bytes", TRUE, i) : i \in PlainImages}
             \cup {Arg("bytes", FALSE, NoImage)}

(* Calls on plain images, with every kind of argument an entry point takes *)
CallInputs ==
  ({"pixel_diff", "image_diff"} \X ImageArgs \X ImageArgs \X {DefaultTolerance})
  \cup ({"image_diff_percent"} \X (ImageArgs \cup PathArgs)
          \X (ImageArgs \cup PathArgs) \X {DefaultTolerance})
  \cup ({"is_equal"} \X (ImageArgs \cup PathArgs)
          \X (ImageArgs \cup PathArgs) \X Tolerances)
  \cup ({"is_equal_bytes"} \X BytesArgs \X BytesArgs \X Tolerances)

(* Calls on decoded images of one size and mode, with every pixel content *)
ValueInputs ==
  UNION {
    ({"pixel_diff", "image_diff", "image_diff_percent"}
        \X {Arg("image", TRUE, i) : i \in ImagesOf(s, m)}
        \X {Arg("image", TRUE, i) : i \in ImagesOf(s, m)}
        \X {DefaultTolerance})
    \cup ({"is_equal"}
        \X {Arg("image", TRUE, i) : i \in ImagesOf(s, m)}
        \X {Arg("image", TRUE, i) : i \in ImagesOf(s, m)}
        \X Tolerances)
    : s \in Sizes, m \in Modes}

(* Calls on 2x2 grayscale images of the levels 0, 51, 255 against a plain   *)
(* black image, at tolerance 55.0: the scores are multiples of 51 out of   *)
(* 1020, whose percentages the two roundings of line 156 can miss.         *)
RoundingInputs ==
  ({"image_diff_percent"}
      \X {Arg("image", TRUE, [size |-> <<2, 2>>, mode |-> "L", px |-> p]) :
            p \in [1..4 -> {<<0>>, <<51>>, <<255>>}]}
      \X {Arg("image", TRUE, ImageNew("L", <<2, 2>>, <<0>>))}
      \X {DefaultTolerance})
  \cup ({"is_equal"}
      \X {Arg("image", TRUE, [size |-> <<2, 2>>, mode |-> "L", px |-> p]) :
            p \in [1..4 -> {<<0>>, <<51>>, <<255>>}]}
      \X {Arg("image", TRUE, ImageNew("L", <<2, 2>>, <<0>>))}
      \X {FloatDiv(55, 1)})

Init ==
  \E in \in CallInputs \cup ValueInputs \cup RoundingInputs :
    /\ op = in[1]
    /\ arg_a = in[2]
    /\ arg_b = in[3]
    /\ tolerance = in[4]
    /\ pc = in[1]
    /\ image_a = Bind(in[2])
    /\ image_b = Bind(in[3])
    /\ close_a = FALSE
    /\ close_b = FALSE
    /\ try_outcome = NoOutcome
    /\ result = NoOutcome

----------------------------------------------------------------------------
(* Actions *)

Return(r) == /\ result' = r
             /\ pc' = "done"

(* pixel_diff(image_a, image_b), lines 49-71 *)
PixelDiff ==
  /\ pc = "pixel_diff"
  /\ Return(pixel_diff(image_a.img, image_b.img))
  /\ UNCHANGED <<op, arg_a, arg_b, tolerance, image_a, image_b,
                 close_a, close_b, try_outcome>>

(* image_diff(image_a, image_b), lines 85-95 *)
ImageDiff ==
  /\ pc = "image_diff"
  /\ Return(image_diff(image_a.img, image_b.img))
  /\ UNCHANGED <<op, arg_a, arg_b, tolerance, image_a, image_b,
                 close_a, close_b, try_outcome>>

(* is_equal_bytes, lines 99-102: both buffers are decoded, then is_equal   *)
(* runs on the two images.  A buffer that does not decode raises out of    *)
(* Image.open; an image already opened stays as it is.                     *)
IsEqualBytesOpen ==
  /\ pc = "is_equal_bytes"
  /\ IF ~arg_a.ok
       THEN /\ Return(Raise("DecodeError"))
            /\ UNCHANGED <<image_a, image_b>>
       ELSE IF ~arg_b.ok
         THEN /\ image_a' = Opened(arg_a)
              /\ Return(Raise("DecodeError"))
              /\ UNCHANGED image_b
         ELSE /\ image_a' = Opened(arg_a)
              /\ image_b' = Opened(arg_b)
              /\ pc' = "is_equal"
              /\ UNCHANGED result
  /\ UNCHANGED <<op, arg_a, arg_b, tolerance, close_a, close_b, try_outcome>>

(* is_equal, lines 115-116: the size test.  A str has no attribute size.   *)
IsEqualSizeCheck ==
  /\ pc = "is_equal"
  /\ IF image_a.kind # "image" \/ image_b.kind # "image"
       THEN Return(Raise("AttributeError"))
       ELSE IF SizesDiffer(image_a.img, image_b.img)
         THEN Return(RetBool(FALSE))
         ELSE /\ pc' = "image_diff_percent"
              /\ UNCHANGED result
  /\ UNCHANGED <<op, arg_a, arg_b, tolerance, image_a, image_b,
                 close_a, close_b, try_outcome>>

(* image_diff_percent, lines 134-138 *)
OpenA ==
  /\ pc = "image_diff_percent"
  /\ IF IsInstanceStr(image_a)
       THEN IF arg_a.ok
              THEN /\ image_a' = Opened(arg_a)
                   /\ close_a' = TRUE
                   /\ pc' = "open_b"
                   /\ UNCHANGED result
              ELSE /\ Return(Raise("DecodeError"))
                   /\ UNCHANGED <<image_a, close_a>>
       ELSE /\ pc' = "open_b"
            /\ UNCHANGED <<image_a, close_a, result>>
  /\ UNCHANGED <<op, arg_a, arg_b, tolerance, image_b, close_b, try_outcome>>

(* image_diff_percent, lines 140-142 *)
OpenB ==
  /\ pc = "open_b"
  /\ IF IsInstanceStr(image_b)
       THEN IF arg_b.ok
              THEN /\ image_b' = Opened(arg_b)
                   /\ close_b' = TRUE
                   /\ pc' = "try"
                   /\ UNCHANGED result
              ELSE /\ Return(Raise("DecodeError"))
                   /\ UNCHANGED <<image_b, close_b>>
       ELSE /\ pc' = "try"
            /\ UNCHANGED <<image_b, close_b, result>>
  /\ UNCHANGED <<op, arg_a, arg_b, tolerance, image_a, close_a, try_outcome>>

(* image_diff_percent, lines 144-156 *)
Try ==
  /\ pc = "try"
  /\ try_outcome' = TryBody(image_a.img, image_b.img)
  /\ pc' = "finally"
  /\ UNCHANGED <<op, arg_a, arg_b, tolerance, image_a, image_b,
                 close_a, close_b, result>>

(* lines 157-161 with the close_a / close_b tests dropped *)
FinallyCloseBoth ==
  /\ pc = "finally"
  /\ image_a' = Closed(image_a)
  /\ image_b' = Closed(image_b)
  /\ IF try_outcome.tag = "raise"
       THEN Return(try_outcome)
       ELSE /\ pc' = "return"
            /\ UNCHANGED result
  /\ UNCHANGED <<op, arg_a, arg_b, tolerance, close_a, close_b, try_outcome>>

(* image_diff_percent, lines 157-161; an exception of the try block        *)
(* leaves the function after the closes.                                   *)
Finally ==
  /\ pc = "finally"
  /\ image_a' = IF close_a THEN Closed(image_a) ELSE image_a
  /\ image_b' = IF close_b THEN Closed(image_b) ELSE image_b
  /\ IF try_outcome.tag = "raise"
       THEN Return(try_outcome)
       ELSE /\ pc' = "return"
            /\ UNCHANGED result
  /\ UNCHANGED <<op, arg_a, arg_b, tolerance, close_a, close_b, try_outcome>>

(* image_diff_percent, line 163, to its caller *)
ReturnPercent ==
  /\ pc = "return"
  /\ IF op = "image_diff_percent"
       THEN Return(try_outcome)
       ELSE /\ pc' = "compare"
            /\ UNCHANGED result
  /\ UNCHANGED <<op, arg_a, arg_b, tolerance, image_a, image_b,
                 close_a, close_b, try_outcome>>

(* is_equal, line 118 *)
IsEqualCompare ==
  /\ pc = "compare"
  /\ Return(RetBool(PercentLeqTolerance(try_outcome, tolerance)))
  /\ UNCHANGED <<op, arg_a, arg_b, tolerance, image_a, image_b,
                 close_a, close_b, try_outcome>>

Next ==
  \/ PixelDiff
  \/ ImageDiff
  \/ IsEqualBytesOpen
  \/ IsEqualSizeCheck
  \/ OpenA
  \/ OpenB
  \/ Try
  \/ Finally
  \/ ReturnPercent
  \/ IsEqualCompare

Spec == Init /\ [][Next]_vars

----------------------------------------------------------------------------
(* Properties *)

Done == pc = "done"

A == arg_a.img
B == arg_b.img

Decodable == arg_a.ok /\ arg_b.ok

Compatible == A.size = B.size /\ A.mode = B.mode

Raised(exc) == result.tag = "raise" /\ result.exc = exc

RECURSIVE LuminanceSum(_, _, _)
(* The sum over the pixels 1..k of the luminance of abs(a - b) *)
LuminanceSum(a, b, k) ==
  IF k = 0 THEN 0
  ELSE ConvertPixelL(a.mode,
         [c \in 1..Len(a.px[k]) |-> Abs(a.px[k][c] - b.px[k][c])])
       + LuminanceSum(a, b, k - 1)

(* What is_equal answers on two decoded images *)
IsEqualOnImages(a, b, t) ==
  IF a.size # b.size THEN RetBool(FALSE)
  ELSE LET p == TryBody(a, b)
       IN  IF p.tag = "raise" THEN p
           ELSE RetBool(FloatLeq(p.flt, t))

(* floor(x * 2^10) of a float x < 2^21 *)
FloorScaled(x) ==
  IF IsZero(x) \/ x.e < -10 THEN 0
  ELSE (x.m[1] * 2 ^ 26 + x.m[2] * 2 ^ 13 + x.m[3]) \div 2 ^ (16 - x.e)

(* the sum over the pixels of the luminance of abs(A - B), and the score   *)
(* 255 * w * h of black against white                                      *)
S == LuminanceSum(A, B, Len(A.px))
W == 255 * A.size[1] * A.size[2]

(* C1: for same-size, same-mode images of non-zero area, image_diff_percent *)
(* returns a percentage, and every percentage computed lies in 0..100.      *)
C1_PercentInRange ==
  /\ try_outcome.tag = "percent" =>
       /\ FloatLeq(FloatZero, try_outcome.flt)
       /\ FloatLeq(try_outcome.flt, FloatDiv(100, 1))
  /\ (Done /\ op = "image_diff_percent" /\ Decodable /\ Compatible
        /\ Area(A.size) > 0) =>
       /\ result.tag = "percent"
       /\ FloatLeq(result.flt, FloatDiv(100, 1))

C1_Witness ==
  /\ Done /\ op = "image_diff_percent"
  /\ A.mode = "L" /\ Area(A.size) = 2
  /\ result.tag = "percent"
  /\ FloatLt(FloatZero, result.flt)
  /\ FloatLt(result.flt, FloatDiv(100, 1))

(* C2: is_equal and is_equal_bytes on decoded images of different sizes    *)
(* return False whatever the modes and the tolerance, raise nothing and    *)
(* never enter image_diff_percent.                                         *)
C2_SizeMismatchIsFalse ==
  (/\ op \in {"is_equal", "is_equal_bytes"}
   /\ arg_a.kind # "str" /\ arg_b.kind # "str"
   /\ Decodable
   /\ A.size # B.size) =>
     /\ pc \in {"is_equal_bytes", "is_equal", "done"}
     /\ try_outcome = NoOutcome
     /\ Done => result = RetBool(FALSE)

C2_Witness ==
  /\ Done /\ op = "is_equal_bytes" /\ Decodable
  /\ A.size # B.size /\ A.size[1] = B.size[1] /\ A.mode # B.mode
  /\ result = RetBool(FALSE)

(* C3: pixel_diff, image_diff and image_diff_percent raise                 *)
(* ImageCompareException exactly when the sizes or the modes differ, and   *)
(* return a value only for images of one size and one mode.                *)
C3_IncompatibleRejected ==
  (Done /\ op \in {"pixel_diff", "image_diff", "image_diff_percent"}
     /\ Decodable) =>
     /\ Raised("ImageCompareException") <=> ~Compatible
     /\ result.tag # "raise" => Compatible
     /\ (Compatible /\ op = "pixel_diff") => result.tag = "image"
     /\ (Compatible /\ op = "image_diff") => result.tag = "score"

C3_Witness ==
  /\ Done /\ op = "image_diff_percent" /\ Decodable
  /\ A.size = B.size /\ A.mode # B.mode /\ Area(A.size) > 0
  /\ Raised("ImageCompareException")

(* C4: on same-size, same-mode images of zero area image_diff_percent and  *)
(* is_equal fail with DegenerateImageError, never with a division by zero. *)
C4_ZeroAreaDegenerateError ==
  (Done /\ op \in {"image_diff_percent", "is_equal"}
     /\ arg_a.kind = "image" /\ arg_b.kind = "image"
     /\ Compatible /\ Area(A.size) = 0) =>
     Raised("DegenerateImageError")

(* C5: when the call has ended, every image the engine decoded from a path *)
(* or from a byte buffer is closed.                                        *)
C5_EngineDecodedReleased ==
  Done =>
    /\ (arg_a.kind # "image" /\ image_a.st # "none") => image_a.st = "closed"
    /\ (arg_b.kind # "image" /\ image_b.st # "none") => image_b.st = "closed"

(* C6: an Image the caller passed in stays open and keeps its pixels, in   *)
(* every state of the call.                                                *)
C6_CallerImageUntouched ==
  /\ arg_a.kind = "image" => image_a = Bind(arg_a)
  /\ arg_b.kind = "image" => image_b = Bind(arg_b)

C6_Witness ==
  /\ Done /\ op = "image_diff_percent"
  /\ arg_a.kind = "image" /\ image_a.st = "open"
  /\ arg_b.kind = "str" /\ image_b.st = "closed"
  /\ result.tag = "percent"

(* C7: for an image A of non-zero area, image_diff_percent(A, A) is 0 and  *)
(* is_equal(A, A, t) is True for every tolerance t >= 0.                   *)
C7_Identity ==
  (Done /\ arg_a.kind = "image" /\ arg_b = arg_a /\ Area(A.size) > 0) =>
     /\ op = "image_diff_percent" =>
          (result.tag = "percent" /\ IsZero(result.flt))
     /\ op = "is_equal" => result = RetBool(TRUE)

(* C8: on same-size, same-mode images is_equal returns True exactly when   *)
(* the float image_diff_percent returned is at most the tolerance          *)
(* (equality included), so a True answer stays True under every larger     *)
(* tolerance.                                                              *)
C8_ToleranceInclusive ==
  (Done /\ op \in {"is_equal", "is_equal_bytes"}
     /\ try_outcome.tag = "percent") =>
     /\ try_outcome = TryBody(image_a.img, image_b.img)
     /\ result.tag = "bool"
     /\ result.bool <=>
          (try_outcome.flt = tolerance \/ FloatLt(try_outcome.flt, tolerance))
     /\ \A t2 \in Tolerances \cup {FloatDiv(55, 1)} :
          (result.bool /\ FloatLt(tolerance, t2)) =>
             IsEqualOnImages(image_a.img, image_b.img, t2) = RetBool(TRUE)

C8_Witness ==
  /\ Done /\ op = "is_equal"
  /\ tolerance = FloatDiv(50, 1)
  /\ try_outcome.tag = "percent"
  /\ try_outcome.flt = tolerance
  /\ S > 0
  /\ result = RetBool(TRUE)

(* C9: is_equal on two paths of decodable images answers what it answers   *)
(* on the decoded images.                                                  *)
C9_IsEqualAcceptsPaths ==
  (Done /\ op = "is_equal" /\ arg_a.kind = "str" /\ arg_b.kind = "str"
     /\ Decodable) =>
     result = IsEqualOnImages(A, B, tolerance)

(* C10: the percentage is 100 * S / (255 * w * h) as line 156 computes it  *)
(* in floats, S / (255 * w * h) rounded to nearest, times 100, rounded to  *)
(* nearest again, S the sum over the pixels of the luminance of the        *)
(* channel-wise absolute difference, for inputs of every mode; it lies     *)
(* within 2^-9 of the real quotient, is 0.0 when S = 0, and all black      *)
(* against all white in RGB gives 100.0.                                   *)
C10_PercentFormula ==
  try_outcome.tag = "percent" =>
    /\ try_outcome.flt = FloatMulInt(FloatDiv(S, W), 100)
    /\ FloorScaled(try_outcome.flt) * W <= 100 * S * 2 ^ 10
    /\ 100 * S * 2 ^ 10 - 2 * W <= FloorScaled(try_outcome.flt) * W
    /\ S = 0 => IsZero(try_outcome.flt)
    /\ (/\ A = black_reference_image(A.size)
        /\ B = ImageNew("RGB", B.size, <<255, 255, 255>>)) =>
          try_outcome.flt = FloatDiv(100, 1)

C10_Witness ==
  /\ Done /\ op = "image_diff_percent"
  /\ A.mode = "L" /\ A.size = <<2, 2>>
  /\ S = 561 /\ W = 1020
  /\ result.tag = "percent"
  /\ result.flt = FloatMulInt(FloatDiv(561, 1020), 100)
  /\ FloatLt(FloatDiv(55, 1), result.flt)

====
